---- MODULE Spec2Model ----
(***************************************************************************)
(* Kinetic Particles: the audio engine life cycle (AudioController.tsx),   *)
(* the hand tracker life cycle and gesture extraction (HandController),    *)
(* the shape requests of App.tsx with the remote generation service, and   *)
(* the per-frame particle update (ParticleScene.tsx).                      *)
(*                                                                         *)
(* Real quantities are fixed-point integers in thousandths: openness 1.0   *)
(* is 1000, a gain of 0.3 is 300, a coordinate of 1.2 is 1200.             *)
(***************************************************************************)
EXTENDS Integers, Sequences, FiniteSets, TLC

(***************************************************************************)
(* Bounds of the model.                                                    *)
(***************************************************************************)
\* AudioContexts that one behaviour may create
MaxCtx == 3
\* teardown timers that may be pending at once
MaxTimers == 4
\* video frames the camera delivers in one behaviour
MaxVideoTime == 3
\* particles in the pool (PARTICLE_COUNT is 4000 in ParticleScene.tsx:14)
ParticleCount == 3
\* points a built-in generator is asked for (3500 in App.tsx:44-46)
ShapeCount == 2
\* longest point list the remote service answers with
MaxGeminiLen == 4
\* render frames in one behaviour
MaxFrames == 2
\* generation requests in one behaviour
MaxRequests == 2
\* runs of predictWebcam in one behaviour
MaxPolls == 4

(***************************************************************************)
(* Program constants.                                                      *)
(***************************************************************************)
\* AudioController.tsx:84-91, the length of `frequencies`
NUM_OSCILLATORS == 6
\* AudioController.tsx:39, the idle intensity 0.1
AUDIO_IDLE_INTENSITY == 100
\* AudioController.tsx:44-45
minFreq == 150
maxFreq == 6000
\* AudioController.tsx:51-52
minVol == 300
maxVol == 600
\* AudioController.tsx:120, the fade-in target 0.3
FADE_IN_GAIN == 300
\* AudioController.tsx:77, the initial cutoff in Hz
INITIAL_CUTOFF == 200

\* null reference
NULL == 0

Max(x, y) == IF x >= y THEN x ELSE y
Min(x, y) == IF x <= y THEN x ELSE y

Ctxs == 1..MaxCtx

(***************************************************************************)
(* Gesture states.  A HandData value as types.ts declares it.              *)
(***************************************************************************)
HandData(detected, isOpen, openness) ==
    [detected |-> detected, isOpen |-> isOpen, openness |-> openness]

\* App.tsx:15, the initial handData
InitialHandData == HandData(FALSE, FALSE, 0)

VARIABLES
    audio,          \* AudioController: its refs and the Web Audio objects they name
    audioMounted,   \* AudioController is mounted
    isAudioEnabled, \* App state, the `enabled` prop
    handData,       \* App state, the gesture state last published
    hc,             \* HandController: its refs, state and the resources it acquired
    app,            \* App state: targetPoints, currentShape, customPrompt, ...
    env,            \* the build: process.env.API_KEY set?, the service definition bound
    requests,       \* generateShapePoints calls of App still in flight
    scene,          \* Particles: currentPositions and what the last frame computed
    svc,            \* the last direct call of the generation service and its handling
    bottle          \* the last two iterations of generateBottle's loop

(***************************************************************************)
(* AudioController.  `audio` holds the five refs of the component and the  *)
(* state of the Web Audio objects it created:                              *)
(*   created        number of AudioContexts constructed so far             *)
(*   ctxState[c]    "none" | "running" | "closed"                          *)
(*   gainTarget[c]  target of context c's master gain (thousandths)        *)
(*   filterTarget[c] target of context c's filter cutoff (milli-Hz)        *)
(*   oscRunning     the started, not yet stopped oscillators <<c, i>>      *)
(*   timers         pending setTimeout callbacks of stopAudio in firing    *)
(*                  order (all have the same 500 ms delay), each holding   *)
(*                  the `ctx` its closure captured                         *)
(*   modulated      the props the modulation effect last read and the      *)
(*                  intensity it computed from them                        *)
(*   initFailed     the last run of initAudio ended in its catch block     *)
(*                  ("Audio init failed" was logged)                       *)
(***************************************************************************)
\* no modulation has computed an intensity yet
NoModulation == [ran |-> FALSE, hd |-> InitialHandData, intensity |-> 0]

InitAudioState ==
    [ audioCtxRef      |-> NULL,
      masterGainRef    |-> NULL,
      filterNodeRef    |-> NULL,
      oscillatorsRef   |-> {},
      isInitializedRef |-> FALSE,
      created          |-> 0,
      ctxState         |-> [c \in Ctxs |-> "none"],
      gainTarget       |-> [c \in Ctxs |-> 0],
      filterTarget     |-> [c \in Ctxs |-> 0],
      oscRunning       |-> {},
      timers           |-> << >>,
      modulated        |-> NoModulation,
      initFailed       |-> FALSE ]

\* Where initAudio's try block may throw: nowhere, at the context constructor,
\* at createGain, at createBiquadFilter, or at createOscillator number i.
FailPoints ==
    {[at |-> k, i |-> 0] : k \in {"none", "context", "gain", "filter"}}
      \cup {[at |-> "oscillator", i |-> i] : i \in 0..(NUM_OSCILLATORS - 1)}

\* the try block runs to its end
NoFail == [at |-> "none", i |-> 0]

\* the oscillators of context c started before createOscillator number i
OscsBefore(c, i) == {<<c, k>> : k \in 0..(i - 1)}

initAudio(a, failAt) ==
    IF failAt.at = "context" THEN [a EXCEPT !.initFailed = TRUE]
    ELSE
      LET c  == a.created + 1
          a1 == [a EXCEPT !.created = c,
                          !.ctxState[c] = "running",
                          !.audioCtxRef = c,
                          !.initFailed = (failAt.at # "none")]
      IN
      IF failAt.at = "gain" THEN a1
      ELSE
        LET a2 == [a1 EXCEPT !.gainTarget[c] = 0, !.masterGainRef = c] IN
        IF failAt.at = "filter" THEN a2
        ELSE
          LET a3 == [a2 EXCEPT !.filterTarget[c] = INITIAL_CUTOFF * 1000,
                               !.filterNodeRef = c]
          IN
          IF failAt.at = "oscillator"
          THEN [a3 EXCEPT !.oscRunning = @ \cup OscsBefore(c, failAt.i)]
          ELSE [a3 EXCEPT !.oscRunning = @ \cup OscsBefore(c, NUM_OSCILLATORS),
                          !.oscillatorsRef = OscsBefore(c, NUM_OSCILLATORS),
                          !.isInitializedRef = TRUE,
                          !.gainTarget[c] = FADE_IN_GAIN]

stopAudio(a) ==
    IF a.audioCtxRef # NULL
    THEN LET ctx == a.audioCtxRef
             a1  == IF a.masterGainRef # NULL
                    THEN [a EXCEPT !.gainTarget[a.masterGainRef] = 0]
                    ELSE a
         IN [a1 EXCEPT !.timers = Append(@, [ctx |-> ctx])]
    ELSE a

\* the setTimeout callback of stopAudio, with the ctx its closure captured
stopAudioTimer(a, ctx) ==
    [a EXCEPT !.oscRunning = @ \ a.oscillatorsRef,
              !.oscillatorsRef = {},
              !.ctxState[ctx] = "closed",
              !.isInitializedRef = FALSE,
              !.audioCtxRef = NULL]

\* AudioIntensity with the idle default of the particle simulation
AudioIntensity_VisualDefault(hd) == IF hd.detected THEN hd.openness ELSE 0

\* AudioController.tsx:39
AudioIntensity(hd) == IF hd.detected THEN hd.openness ELSE AUDIO_IDLE_INTENSITY

\* TargetFreq linear in the intensity
TargetFreq_Linear(intensity) ==
    minFreq * 1000 + intensity * (maxFreq - minFreq)

\* AudioController.tsx:47, in milli-Hz (intensity^2 is taken to four decimal
\* places, which is exact for intensities that are multiples of 0.01)
TargetFreq(intensity) ==
    minFreq * 1000 + (((intensity * intensity) \div 100) * (maxFreq - minFreq)) \div 10

\* AudioController.tsx:53, in thousandths
TargetVol(intensity) ==
    minVol + (intensity * (maxVol - minVol)) \div 1000

\* modulationEffect building the engine itself when there is none
modulationEffect_LazyInit(a, hd) ==
    LET b == IF a.audioCtxRef = NULL THEN initAudio(a, NoFail) ELSE a
    IN [b EXCEPT !.filterTarget[b.filterNodeRef] = TargetFreq(AudioIntensity(hd)),
                 !.gainTarget[b.masterGainRef] = TargetVol(AudioIntensity(hd)),
                 !.modulated = [ran |-> TRUE, hd |-> hd,
                                intensity |-> AudioIntensity(hd)]]

\* The modulation effect, run after a commit that changed handOpenness,
\* handDetected or enabled.
modulationEffect(a, hd) ==
    IF a.audioCtxRef = NULL \/ a.filterNodeRef = NULL \/ a.masterGainRef = NULL
    THEN a
    ELSE [a EXCEPT !.filterTarget[a.filterNodeRef] = TargetFreq(AudioIntensity(hd)),
                   !.gainTarget[a.masterGainRef] = TargetVol(AudioIntensity(hd)),
                   !.modulated = [ran |-> TRUE, hd |-> hd,
                                  intensity |-> AudioIntensity(hd)]]

\* The body of the enable/disable effect for the committed value of `enabled`.
enableEffect(a, enabled, failAt) ==
    IF enabled /\ ~a.isInitializedRef THEN initAudio(a, failAt)
    ELSE IF ~enabled /\ a.isInitializedRef THEN stopAudio(a)
    ELSE a

\* A commit that changes `enabled`: the cleanup of the previous enable/disable
\* effect, then its body with the new value, then the modulation effect
\* (enabled is one of its dependencies).
commitEnabled(a, enabled, hd, failAt) ==
    modulationEffect(enableEffect(stopAudio(a), enabled, failAt), hd)

(***************************************************************************)
(* Gesture extraction (HandController predictWebcam).  avgDist is the      *)
(* average wrist-to-fingertip distance in thousandths.                     *)
(***************************************************************************)
\* part_000:95-96
minVal == 150
maxVal == 450

\* Openness without the clamp of line 98
Openness_Unclamped(avgDist) ==
    ((avgDist - minVal) * 1000) \div (maxVal - minVal)

\* part_000:97-98
Openness(avgDist) ==
    Max(0, Min(1000, ((avgDist - minVal) * 1000) \div (maxVal - minVal)))

\* HandPresent counting openness 0.5 as open
HandPresent_OpenAtHalf(avgDist) ==
    HandData(TRUE, Openness(avgDist) >= 500, Openness(avgDist))

\* part_000:100-104, the state emitted for a frame with a hand
HandPresent(avgDist) ==
    HandData(TRUE, Openness(avgDist) > 500, Openness(avgDist))

\* part_000:106, the state emitted for a frame with no hand
HandAbsent == HandData(FALSE, FALSE, 0)

\* average distances the tracker may report: below, at and above both thresholds
AvgDists == {60, 150, 240, 300, 303, 450, 900}

\* what detectForVideo may return: no landmarks, or a hand at some distance
NoDetection == [hand |-> FALSE, avgDist |-> 0]

Detections == {NoDetection}
                \cup {[hand |-> TRUE, avgDist |-> d] : d \in AvgDists}

Extract(det) == IF det.hand THEN HandPresent(det.avgDist) ELSE HandAbsent

\* App's setHandData: the new gesture state is committed; AudioController's
\* modulation effect runs when one of its dependencies changed.
setHandData(a, old, new) ==
    IF audioMounted /\ (new.openness # old.openness \/ new.detected # old.detected)
    THEN modulationEffect(a, new)
    ELSE a

(***************************************************************************)
(* HandController.  `hc` holds                                             *)
(*   mounted            the component is mounted (videoRef.current is the  *)
(*                      video element exactly while it is)                 *)
(*   stage              where the asynchronous initialisation stands:      *)
(*                      "vision"  awaiting FilesetResolver.forVisionTasks  *)
(*                      "model"   awaiting HandLandmarker.createFromOptions*)
(*                      "camera"  awaiting getUserMedia                    *)
(*                      "video"   stream attached, awaiting loadeddata     *)
(*                      "polling" predictWebcam has run                    *)
(*                      "dropped" stream obtained with no video element    *)
(*                      "failed"  a catch block ran                        *)
(*   landmarkerRef      NULL or the handle                                 *)
(*   landmarker         "none" | "open" | "closed", the handle's state     *)
(*   stream             "none" | "live" | "stopped", the camera stream     *)
(*   rafPending         an animation-frame callback is scheduled           *)
(*   lastVideoTimeRef, videoTime, loading, error, permissionGranted        *)
(*   polls              number of runs of predictWebcam so far             *)
(*   emitted            number of calls of onHandUpdate so far             *)
(*   lastDet            what detectForVideo returned for the frame         *)
(*                      processed last                                     *)
(***************************************************************************)
\* part_000:15, the initial lastVideoTimeRef
NO_FRAME == -1

\* the handle HandLandmarker.createFromOptions resolves with
HANDLE == 1

InitHandController ==
    [ mounted           |-> TRUE,
      stage             |-> "vision",
      landmarkerRef     |-> NULL,
      landmarker        |-> "none",
      stream            |-> "none",
      rafPending        |-> FALSE,
      lastVideoTimeRef  |-> NO_FRAME,
      videoTime         |-> 0,
      loading           |-> TRUE,
      error             |-> "",
      permissionGranted |-> FALSE,
      polls             |-> 0,
      emitted           |-> 0,
      lastDet           |-> NoDetection ]

\* setState of an unmounted component changes nothing
setLoading(h, v) == IF h.mounted THEN [h EXCEPT !.loading = v] ELSE h
setError(h, v) == IF h.mounted THEN [h EXCEPT !.error = v] ELSE h
setPermissionGranted(h, v) ==
    IF h.mounted THEN [h EXCEPT !.permissionGranted = v] ELSE h

\* part_000:35-39 and 58-60, the catch blocks
initLandmarkerCatch(h) ==
    [setLoading(setError(h, "Failed to load AI Vision models."), FALSE)
        EXCEPT !.stage = "failed"]

\* startCameraCatch asking for the camera again
startCameraCatch_Retries(h) ==
    [setError(h, "Camera permission denied.") EXCEPT !.stage = "camera"]

startCameraCatch(h) ==
    [setError(h, "Camera permission denied.") EXCEPT !.stage = "failed"]

\* part_000:25-34, createFromOptions resolved: the handle is stored and
\* startCamera is called
initLandmarkerResolved(h) ==
    [setLoading(h, FALSE) EXCEPT !.landmarkerRef = HANDLE,
                                 !.landmarker = "open",
                                 !.stage = "camera"]

\* part_000:50-57, getUserMedia resolved with a live stream
startCameraResolved(h) ==
    IF h.mounted
    THEN [setPermissionGranted(h, TRUE) EXCEPT !.stream = "live", !.stage = "video"]
    ELSE [h EXCEPT !.stream = "live", !.stage = "dropped"]

\* predictWebcam without the videoRef test of line 64: it runs whenever the
\* tracker handle is set, the component unmounted or not
predictWebcam_NoVideoCheck(h, det) ==
    LET h0 == [h EXCEPT !.polls = @ + 1] IN
    IF h.landmarkerRef = NULL
    THEN [h |-> h0, emit |-> << >>]
    ELSE IF h.videoTime # h.lastVideoTimeRef
         THEN [h |-> [h0 EXCEPT !.lastVideoTimeRef = h.videoTime,
                                !.emitted = @ + 1,
                                !.lastDet = det,
                                !.rafPending = TRUE],
               emit |-> <<Extract(det)>>]
         ELSE [h |-> [h0 EXCEPT !.rafPending = TRUE], emit |-> << >>]

\* predictWebcam without the comparison of line 67: every poll processes
predictWebcam_NoDedup(h, det) ==
    LET h0 == [h EXCEPT !.polls = @ + 1] IN
    IF h.landmarkerRef = NULL \/ ~h.mounted
    THEN [h |-> h0, emit |-> << >>]
    ELSE [h |-> [h0 EXCEPT !.lastVideoTimeRef = h.videoTime,
                           !.emitted = @ + 1,
                           !.lastDet = det,
                           !.rafPending = TRUE],
          emit |-> <<Extract(det)>>]

\* part_000:63-110.  `det` is what detectForVideo returns for the frame.
\* The result is the new component state and the gesture states emitted.
predictWebcam(h, det) ==
    LET h0 == [h EXCEPT !.polls = @ + 1] IN
    IF h.landmarkerRef = NULL \/ ~h.mounted
    THEN [h |-> h0, emit |-> << >>]
    ELSE IF h.videoTime # h.lastVideoTimeRef
         THEN [h |-> [h0 EXCEPT !.lastVideoTimeRef = h.videoTime,
                                !.emitted = @ + 1,
                                !.lastDet = det,
                                !.rafPending = TRUE],
               emit |-> <<Extract(det)>>]
         ELSE [h |-> [h0 EXCEPT !.rafPending = TRUE], emit |-> << >>]

\* part_000:42-45, the cleanup of the init effect
handCleanup(h) ==
    [h EXCEPT !.landmarker = IF h.landmarkerRef # NULL THEN "closed" ELSE @,
              !.rafPending = FALSE,
              !.mounted = FALSE]

(***************************************************************************)
(* Points and the built-in shape generators (utils/geometry.ts).           *)
(* Math.random() is an input; angles are drawn in quarter turns, where     *)
(* sine and cosine are exact.                                              *)
(***************************************************************************)
Vec(x, y, z) == [x |-> x, y |-> y, z |-> z]

Origin == Vec(0, 0, 0)

Cos4(q) == CASE q % 4 = 0 -> 1 [] q % 4 = 1 -> 0 [] q % 4 = 2 -> -1 [] OTHER -> 0
Sin4(q) == CASE q % 4 = 0 -> 0 [] q % 4 = 1 -> 1 [] q % 4 = 2 -> 0 [] OTHER -> -1

RECURSIVE ISqrtBetween(_, _, _)
ISqrtBetween(n, lo, hi) ==
    IF lo >= hi THEN lo
    ELSE LET mid == (lo + hi + 1) \div 2 IN
         IF mid * mid <= n THEN ISqrtBetween(n, mid, hi)
                           ELSE ISqrtBetween(n, lo, mid - 1)

\* the integer part of the square root of n, 0 <= n < 2^30
ISqrt(n) == ISqrtBetween(n, 0, 32767)

\* the square root of a value in thousandths, in thousandths
Sqrt1000(v) == ISqrt(v * 1000)

\* geometry.ts:8 and 24-32, the sphere radius and the cube half edge 1.2
SHAPE_RADIUS == 1200

\* geometry.ts:6-13, one point of generateSphere: theta = thetaQ quarter
\* turns, phi = phiQ quarter turns
SpherePoint(d) ==
    Vec(SHAPE_RADIUS * Sin4(d.phiQ) * Cos4(d.thetaQ),
        SHAPE_RADIUS * Sin4(d.phiQ) * Sin4(d.thetaQ),
        SHAPE_RADIUS * Cos4(d.phiQ))

SphereDraws == <<[thetaQ |-> 0, phiQ |-> 1], [thetaQ |-> 1, phiQ |-> 2],
                 [thetaQ |-> 3, phiQ |-> 1]>>

\* geometry.ts:24-26, (Math.random() * 2 - 1) * 1.2 for a draw r in thousandths
CubeCoord(r) == ((r * 2 - 1000) * SHAPE_RADIUS) \div 1000

\* geometry.ts:21-34, one point of generateCube
CubePoint(d) ==
    LET px == CubeCoord(d.rx)
        py == CubeCoord(d.ry)
        pz == CubeCoord(d.rz)
    IN IF d.axis = 0 THEN Vec(d.sign * SHAPE_RADIUS, py, pz)
       ELSE IF d.axis = 1 THEN Vec(px, d.sign * SHAPE_RADIUS, pz)
       ELSE Vec(px, py, d.sign * SHAPE_RADIUS)

CubeDraws == <<[axis |-> 0, sign |-> 1, rx |-> 100, ry |-> 500, rz |-> 750],
              [axis |-> 2, sign |-> -1, rx |-> 0, ry |-> 250, rz |-> 900],
              [axis |-> 1, sign |-> 1, rx |-> 999, ry |-> 0, rz |-> 400]>>

\* geometry.ts:43, h = Math.random() * 3 - 1.0
BottleHeight(r) == r * 3 - 1000

\* geometry.ts:52, y = (h + 1) / 2.5
BottleY(h) == ((h + 1000) * 10) \div 25

\* BottleRadius with the lip as narrow as the neck
BottleRadius_NoLip(y, rBase) ==
    IF y < 50 THEN (Sqrt1000(rBase) * 800) \div 1000
    ELSE IF y < 600 THEN 800
    ELSE IF y < 700 THEN LET t == ((y - 600) * 1000) \div 100
                         IN (800 * (1000 - t) + 300 * t) \div 1000
    ELSE 300

\* geometry.ts:54-70, the radius at normalized height y; rBase is the draw
\* of the base disk
BottleRadius(y, rBase) ==
    IF y < 50 THEN (Sqrt1000(rBase) * 800) \div 1000
    ELSE IF y < 600 THEN 800
    ELSE IF y < 700 THEN LET t == ((y - 600) * 1000) \div 100
                         IN (800 * (1000 - t) + 300 * t) \div 1000
    ELSE IF y < 950 THEN 300
    ELSE 350

\* geometry.ts:43-76, one point of generateBottle
BottlePoint(d) ==
    LET y == BottleY(BottleHeight(d.rh))
        r == BottleRadius(y, d.rBase)
    IN Vec(r * Cos4(d.thetaQ), (y * 35) \div 10 - 1500, r * Sin4(d.thetaQ))

\* geometry.ts:42-77, what one iteration of generateBottle's loop computes
\* from its draws
BottleIteration(d) ==
    [ran   |-> TRUE,
     draw  |-> d,
     h     |-> BottleHeight(d.rh),
     y     |-> BottleY(BottleHeight(d.rh)),
     r     |-> BottleRadius(BottleY(BottleHeight(d.rh)), d.rBase),
     point |-> BottlePoint(d)]

\* Draws of one iteration.  The height draws give normalized heights just
\* below and at each breakpoint of the profile (0.049 and 0.05, 0.598 and
\* 0.6, 0.699 and 0.7, 0.949 and 0.95), inside every band, and at both ends
\* of the range of Math.random().
BottleHeightDraws == {0, 41, 42, 250, 499, 500, 550, 583, 584, 700, 791, 792,
                      833, 900, 999}

BottleIterationDraws ==
    [rh : BottleHeightDraws, thetaQ : {0, 1}, rBase : {0, 640}]

NoIteration ==
    [ran |-> FALSE, draw |-> [rh |-> 0, thetaQ |-> 0, rBase |-> 0],
     h |-> 0, y |-> 0, r |-> 0, point |-> Origin]

NoIterations == [prev |-> NoIteration, last |-> NoIteration]

BottleDraws == <<[rh |-> 250, thetaQ |-> 0, rBase |-> 250],
                [rh |-> 550, thetaQ |-> 1, rBase |-> 0],
                [rh |-> 0, thetaQ |-> 2, rBase |-> 640]>>

\* The draws of Math.random() during one call of a generator form a stream;
\* a stream is named by its seed and gives point i the draws number
\* seed + i of the generator's table.
Seeds == {0, 1}
Draw(table, seed, i) == table[((seed + i) % Len(table)) + 1]

\* the point lists a generator may return for `count`
generateSphere(count) ==
    {[i \in 1..count |-> SpherePoint(Draw(SphereDraws, seed, i))] : seed \in Seeds}
generateCube(count) ==
    {[i \in 1..count |-> CubePoint(Draw(CubeDraws, seed, i))] : seed \in Seeds}
generateBottle(count) ==
    {[i \in 1..count |-> BottlePoint(Draw(BottleDraws, seed, i))] : seed \in Seeds}

(***************************************************************************)
(* The remote shape generation service (services/geminiService.ts).  The   *)
(* file holds three definitions of generateShapePoints: lines 13-64,       *)
(* 77-132 and 140-196.                                                     *)
(***************************************************************************)
ServiceDefinitions == {1, 2, 3}

\* a thrown JavaScript value: an Error object with a message
ErrorObject(message) == [type |-> "Error", value |-> message]
\* a JavaScript string
StringValue(str) == [type |-> "string", value |-> str]

\* v === str for a string literal str: an object is never === a string
StrictEqualsString(v, str) == v.type = "string" /\ v.value = str

Resolved(points) == [ok |-> TRUE, points |-> points, error |-> StringValue("")]
Rejected(err) == [ok |-> FALSE, points |-> << >>, error |-> err]

\* point lists the model answers with: prefixes of two clouds in [-1.5, 1.5]^3
GeminiCloudA == <<Vec(1500, 0, -1500), Vec(-700, 300, 0), Vec(0, 0, 100),
                  Vec(250, -1500, 900), Vec(-1, 2, -3)>>
GeminiCloudB == <<Vec(0, 1000, 0), Vec(0, 1000, 0), Vec(500, 500, 500),
                  Vec(-1500, 1500, 0), Vec(10, 20, 30)>>

GeminiPointLists ==
    {SubSeq(GeminiCloudA, 1, n) : n \in 0..MaxGeminiLen}
      \cup {SubSeq(GeminiCloudB, 1, n) : n \in 1..MaxGeminiLen}

\* what ai.models.generateContent and the parsing after it may do: the call
\* throws, the response has no text, the text is not JSON, the JSON has no
\* `points`, or it has the list `points`
RemoteOutcomes ==
    {[kind |-> k, points |-> << >>] :
        k \in {"callThrows", "emptyText", "badJson", "noPoints"}}
      \cup {[kind |-> "points", points |-> ps] : ps \in GeminiPointLists}

\* geminiService.ts:85-131 (and 14-63, 146-195): the try block after the
\* credentials check; emptyMessage is the message of the empty-text Error
callRemote(remote, emptyMessage) ==
    CASE remote.kind = "callThrows" -> Rejected(ErrorObject("generateContent failed"))
      [] remote.kind = "emptyText"  -> Rejected(ErrorObject(emptyMessage))
      [] remote.kind = "badJson"    -> Rejected(ErrorObject("SyntaxError"))
      [] remote.kind = "noPoints"   -> Resolved(<< >>)
      [] OTHER                      -> Resolved(remote.points)

\* generateShapePoints as definition `def` of the file gives it, for the
\* credentials state apiKey and the remote outcome
generateShapePoints(def, apiKey, remote) ==
    CASE def = 1 ->
           IF ~apiKey
           THEN Rejected(ErrorObject(
                  "API Key is missing. Please configure your environment variables."))
           ELSE callRemote(remote, "Empty response from Gemini")
      [] def = 2 ->
           IF ~apiKey
           THEN Rejected(ErrorObject("API_KEY_MISSING"))
           ELSE callRemote(remote, "Empty response")
      [] OTHER ->
           IF ~apiKey
           THEN Resolved(<< >>)
           ELSE callRemote(remote, "Empty response from Gemini")

(***************************************************************************)
(* App (App.tsx).  `app` holds targetPoints, currentShape, customPrompt,   *)
(* isGenerating and the text of the last alert shown.                      *)
(***************************************************************************)
BuiltInShapes == {"Sphere", "Cube", "Bottle"}
GEMINI_GENERATED == "Custom (Gemini)"

ALERT_KEY_MISSING == "API Key is missing in Netlify settings."
ALERT_FAILED == "Failed to generate shape."

InitApp ==
    [ targetPoints |-> << >>,
      currentShape |-> "Bottle",
      customPrompt |-> "",
      isGenerating |-> FALSE,
      lastAlert    |-> "",
      mountEffectRan |-> FALSE ]

\* the point lists the switch of handleShapeChange may compute for `shape`
ShapePoints(shape) ==
    CASE shape = "Sphere" -> generateSphere(ShapeCount)
      [] shape = "Cube"   -> generateCube(ShapeCount)
      [] shape = "Bottle" -> generateBottle(ShapeCount)
      [] OTHER            -> {<< >>}

\* App.tsx:39-51, with `points` what the generator returned
handleShapeChange(a, shape, points) ==
    IF Len(points) > 0
    THEN [a EXCEPT !.currentShape = shape, !.targetPoints = points]
    ELSE [a EXCEPT !.currentShape = shape]

\* String.prototype.trim() leaves something
TrimNonEmpty(str) == str \notin {"", " "}

\* App.tsx:54, the guard of handleGeminiGenerate
GenerateGuard(a, hasApiKey) == TrimNonEmpty(a.customPrompt) /\ hasApiKey

\* App.tsx:56-57, up to the await
handleGeminiGenerateStart(a) ==
    [a EXCEPT !.isGenerating = TRUE, !.currentShape = GEMINI_GENERATED]

\* App.tsx:64, the text of the alert for the caught value
AlertFor(err) ==
    IF StrictEqualsString(err, "API_KEY_MISSING") THEN ALERT_KEY_MISSING
    ELSE ALERT_FAILED

\* handleGeminiGenerateSettle with setTargetPoints moved out of the try block:
\* a rejected call sets the target to the empty list
handleGeminiGenerateSettle_SetsOnFailure(a, result) ==
    [a EXCEPT !.targetPoints = result.points,
              !.isGenerating = FALSE,
              !.lastAlert = IF result.ok THEN @ ELSE AlertFor(result.error)]

\* App.tsx:60-67, after the await: `result` is how the promise settled
handleGeminiGenerateSettle(a, result) ==
    IF result.ok
    THEN [a EXCEPT !.targetPoints = result.points, !.isGenerating = FALSE]
    ELSE [a EXCEPT !.lastAlert = AlertFor(result.error), !.isGenerating = FALSE]

(***************************************************************************)
(* Particles (ParticleScene.tsx).  `scene` holds                           *)
(*   currentPositions  the position array, one Vec per particle            *)
(*   rotationY         mesh rotation.y in millionths of a radian           *)
(*   frames            frames run so far                                   *)
(*   lastFrame         what the last frame read and computed: the props    *)
(*                     handData and targetPoints, activeOpenness and the   *)
(*                     raw target of every particle, the jitter drawn and  *)
(*                     the breathing term                                  *)
(* rotation.z, a function of the clock alone, is not kept.                 *)
(***************************************************************************)
Particles == 0..(ParticleCount - 1)

\* ParticleScene.tsx:15
DAMPING_FACTOR == 60
\* ParticleScene.tsx:16
EXPLOSION_SCALE == 6
\* ParticleScene.tsx:72
baseScale == 1800

\* ParticleScene.tsx:22-28, the array useMemo creates on the first render:
\* (Math.random() - 0.5) * 15 for a draw r in thousandths
InitialCoord(r) == ((r - 500) * 15000) \div 1000

InitialPositions ==
    [i \in Particles |-> Vec(InitialCoord(100 + 350 * (i % 3)),
                             InitialCoord(900 - 200 * (i % 4)),
                             InitialCoord(500))]

NoFrame ==
    [hd |-> InitialHandData, targetPoints |-> << >>, activeOpenness |-> 0,
     rawTargets |-> [i \in Particles |-> Origin],
     jitter |-> [i \in Particles |-> Origin], breathe |-> 0]

InitScene ==
    [ currentPositions |-> InitialPositions,
      rotationY        |-> 0,
      frames           |-> 0,
      lastFrame        |-> NoFrame ]

\* particlesRender with the position array made anew by every render
particlesRender_Recreates(sc, targetPoints) ==
    [sc EXCEPT !.currentPositions = InitialPositions]

\* ParticleScene.tsx:22-35, a render of Particles with new props: useMemo
\* with no dependencies keeps the array of the first render
particlesRender(sc, targetPoints) == sc

\* ParticleScene.tsx:46
ActiveOpenness(hd) == IF hd.detected THEN hd.openness ELSE 0

\* JavaScript's a || b on numbers
OrElse(a, b) == IF a # 0 THEN a ELSE b

\* TargetIndex clamping to the last point instead of wrapping around
TargetIndex_Clamps(targetPoints, i) ==
    Min(i, OrElse(Len(targetPoints), 1) - 1)

\* ParticleScene.tsx:57
TargetIndex(targetPoints, i) == i % OrElse(Len(targetPoints), 1)

\* ParticleScene.tsx:58 (the array is indexed from 0, the sequence from 1)
RawTarget(targetPoints, i) ==
    IF Len(targetPoints) > 0
    THEN targetPoints[TargetIndex(targetPoints, i) + 1]
    ELSE Origin

\* product of two values in thousandths
Mul(u, v) == (u * v) \div 1000

\* ParticleScene.tsx:86, Math.pow(activeOpenness, 1.5) * EXPLOSION_SCALE
ExplosionForce(a) == Mul(a, Sqrt1000(a)) * EXPLOSION_SCALE

\* Lerp adding a share of the target instead of a share of the distance
Lerp_NoDelta(p, t) == p + Mul(t, DAMPING_FACTOR)

\* ParticleScene.tsx:93-95, one coordinate of the lerp
Lerp(p, t) == p + Mul(t - p, DAMPING_FACTOR)

\* ParticleScene.tsx:60-95, the new position of one particle: raw target,
\* jitter and noise vectors of the frame, activeOpenness a, breathe
ParticleUpdate(pos, rawTarget, jitter, noise, a, breathe) ==
    LET tgt == Vec(rawTarget.x + jitter.x, rawTarget.y + jitter.y,
                   rawTarget.z + jitter.z)
        sx  == Mul(Mul(tgt.x, baseScale), 1000 + breathe)
        sy  == Mul(Mul(tgt.y, baseScale), 1000 + breathe)
        sz  == Mul(Mul(tgt.z, baseScale), 1000 + breathe)
        len == ISqrt(sx * sx + sy * sy + sz * sz) + 1
        f   == ExplosionForce(a)
        tx  == sx + (sx * f) \div len + (Mul(noise.x, a) * 25) \div 10
        ty  == sy + (sy * f) \div len + (Mul(noise.y, a) * 25) \div 10
        tz  == sz + (sz * f) \div len + (Mul(noise.z, a) * 25) \div 10
    IN Vec(Lerp(pos.x, tx), Lerp(pos.y, ty), Lerp(pos.z, tz))

\* What one frame draws and reads from the clock:
\*   jitter   (Math.random() - 0.5) * 0.02 per axis and particle
\*   noise    the sine and cosine terms times 0.5, per axis and particle
\*   breathe  Math.sin(time * 1.5) * 0.05
FrameDraws ==
    { [jitter  |-> [i \in Particles |-> Origin],
       noise   |-> [i \in Particles |-> Vec(500, -250, 100 * (i % 5))],
       breathe |-> 0],
      [jitter  |-> [i \in Particles |-> Vec(9 - 7 * (i % 3), -10, 3 * (i % 2))],
       noise   |-> [i \in Particles |-> Vec(-300 + 50 * (i % 2), 400, -500)],
       breathe |-> 50] }

\* ParticleScene.tsx:37-105, one frame with the props hd and targetPoints
useFrame(sc, hd, targetPoints, jitter, noise, breatheDraw) ==
    LET a       == ActiveOpenness(hd)
        breathe == IF hd.detected THEN 0 ELSE breatheDraw
        raw     == [i \in Particles |-> RawTarget(targetPoints, i)]
    IN [sc EXCEPT
          !.currentPositions =
              [i \in Particles |->
                  ParticleUpdate(sc.currentPositions[i], raw[i], jitter[i],
                                 noise[i], a, breathe)],
          !.rotationY = @ + 1000 + a * 5,
          !.frames = @ + 1,
          !.lastFrame = [hd |-> hd, targetPoints |-> targetPoints,
                         activeOpenness |-> a, rawTargets |-> raw,
                         jitter |-> jitter, breathe |-> breathe]]

(***************************************************************************)
(* Actions of the audio life cycle.                                        *)
(***************************************************************************)
shapeVars == <<app, env, requests, svc, bottle>>

\* App.tsx:103, the audio button: setIsAudioEnabled(!isAudioEnabled)
ToggleAudio ==
    /\ audioMounted
    /\ Len(audio.timers) + 2 <= MaxTimers
    /\ (~isAudioEnabled /\ ~audio.isInitializedRef) => audio.created < MaxCtx
    /\ isAudioEnabled' = ~isAudioEnabled
    /\ audio' = commitEnabled(audio, ~isAudioEnabled, handData, NoFail)
    /\ UNCHANGED <<audioMounted, handData, hc, shapeVars, scene>>

\* App.tsx:103, the audio button turns audio on and initAudio's try block
\* throws at one of its steps
ToggleAudioInitThrows ==
    /\ audioMounted
    /\ ~isAudioEnabled
    /\ ~audio.isInitializedRef
    /\ Len(audio.timers) + 1 <= MaxTimers
    /\ audio.created < MaxCtx
    /\ isAudioEnabled' = TRUE
    /\ \E failAt \in FailPoints \ {NoFail} :
         audio' = commitEnabled(audio, TRUE, handData, failAt)
    /\ UNCHANGED <<audioMounted, handData, hc, shapeVars, scene>>

\* AudioController unmounts: the effect's cleanup runs
UnmountAudio ==
    /\ audioMounted
    /\ Len(audio.timers) + 1 <= MaxTimers
    /\ audioMounted' = FALSE
    /\ audio' = stopAudio(audio)
    /\ UNCHANGED <<isAudioEnabled, handData, hc, shapeVars, scene>>

\* the oldest pending teardown timer fires
TimerFires ==
    /\ audio.timers # << >>
    /\ audio' = stopAudioTimer([audio EXCEPT !.timers = Tail(@)],
                                Head(audio.timers).ctx)
    /\ UNCHANGED <<audioMounted, isAudioEnabled, handData, hc, shapeVars, scene>>

\* a gesture state arrives from the hand tracker
GestureUpdate ==
    /\ audioMounted
    /\ \E det \in Detections :
         /\ handData' = Extract(det)
         /\ audio' = setHandData(audio, handData, Extract(det))
         /\ scene' = particlesRender(scene, app.targetPoints)
    /\ UNCHANGED <<audioMounted, isAudioEnabled, hc, shapeVars>>

(***************************************************************************)
(* Actions of the hand tracker.                                            *)
(***************************************************************************)
appVars == <<audio, audioMounted, isAudioEnabled, handData, shapeVars, scene>>

VisionLoaded ==
    /\ hc.stage = "vision"
    /\ hc' = [hc EXCEPT !.stage = "model"]
    /\ UNCHANGED appVars

VisionFails ==
    /\ hc.stage = "vision"
    /\ hc' = initLandmarkerCatch(hc)
    /\ UNCHANGED appVars

ModelLoaded ==
    /\ hc.stage = "model"
    /\ hc' = initLandmarkerResolved(hc)
    /\ UNCHANGED appVars

ModelFails ==
    /\ hc.stage = "model"
    /\ hc' = initLandmarkerCatch(hc)
    /\ UNCHANGED appVars

CameraGranted ==
    /\ hc.stage = "camera"
    /\ hc' = startCameraResolved(hc)
    /\ UNCHANGED appVars

CameraDenied ==
    /\ hc.stage = "camera"
    /\ hc' = startCameraCatch(hc)
    /\ UNCHANGED appVars

\* predictWebcam runs and what it emits goes to onHandUpdate = setHandData
RunPredictWebcam(h) ==
    \E det \in Detections :
        LET r == predictWebcam(h, det) IN
        /\ hc' = r.h
        /\ IF r.emit # << >>
           THEN /\ handData' = r.emit[1]
                /\ audio' = setHandData(audio, handData, r.emit[1])
                /\ scene' = particlesRender(scene, app.targetPoints)
           ELSE UNCHANGED <<handData, audio, scene>>
        /\ UNCHANGED <<audioMounted, isAudioEnabled, shapeVars>>

\* the video element fires loadeddata: the listener startCamera added runs
LoadedData ==
    /\ hc.stage = "video"
    /\ RunPredictWebcam([hc EXCEPT !.stage = "polling"])

\* the scheduled animation-frame callback runs
Poll ==
    /\ hc.rafPending
    /\ hc.polls < MaxPolls
    /\ RunPredictWebcam([hc EXCEPT !.rafPending = FALSE])

\* the camera delivers the next frame: video.currentTime advances
VideoFrame ==
    /\ hc.stream = "live"
    /\ hc.stage \in {"video", "polling"}
    /\ hc.videoTime < MaxVideoTime
    /\ hc' = [hc EXCEPT !.videoTime = @ + 1]
    /\ UNCHANGED appVars

UnmountHand ==
    /\ hc.mounted
    /\ hc' = handCleanup(hc)
    /\ UNCHANGED appVars

(***************************************************************************)
(* Actions of App's shape requests.                                        *)
(***************************************************************************)
otherVars == <<audio, audioMounted, isAudioEnabled, handData, hc, bottle>>

\* texts of the prompt input
Prompts == {"", " ", "cat"}

InitRequests == [made |-> 0, pending |-> {}, lastSettled |-> [id |-> 0, ok |-> TRUE]]

\* App.tsx:25-27, the mount effect
MountEffect ==
    /\ ~app.mountEffectRan
    /\ \E points \in ShapePoints("Bottle") :
         /\ app' = [handleShapeChange(app, "Bottle", points)
                       EXCEPT !.mountEffectRan = TRUE]
         /\ scene' = particlesRender(scene, app'.targetPoints)
    /\ UNCHANGED <<env, requests, svc, otherVars>>

\* App.tsx:158, a click on one of the three pattern buttons
SelectShape ==
    /\ app.mountEffectRan
    /\ \E shape \in BuiltInShapes : \E points \in ShapePoints(shape) :
         /\ app' = handleShapeChange(app, shape, points)
         /\ scene' = particlesRender(scene, app'.targetPoints)
    /\ UNCHANGED <<env, requests, svc, otherVars>>

\* App.tsx:177, typing in the prompt input
SetPrompt ==
    /\ app.mountEffectRan
    /\ \E str \in Prompts \ {app.customPrompt} :
         app' = [app EXCEPT !.customPrompt = str]
    /\ UNCHANGED <<env, requests, svc, scene, otherVars>>

\* handleGeminiGenerate up to its await: nothing happens when the guard of
\* line 54 fails, else a call of generateShapePoints is in flight
RunGenerate ==
    IF GenerateGuard(app, env.hasApiKey)
    THEN /\ requests.made < MaxRequests
         /\ app' = handleGeminiGenerateStart(app)
         /\ requests' = [requests EXCEPT !.made = @ + 1,
                                         !.pending = @ \cup {requests.made + 1}]
    ELSE UNCHANGED <<app, requests>>

\* App.tsx:182-183, a click on the generate button, which is disabled while
\* isGenerating or without an API key
ClickGenerate ==
    /\ app.mountEffectRan
    /\ ~(app.isGenerating \/ ~env.hasApiKey)
    /\ RunGenerate
    /\ UNCHANGED <<env, svc, scene, otherVars>>

\* App.tsx:179, Enter in the prompt input
PressEnter ==
    /\ app.mountEffectRan
    /\ RunGenerate
    /\ UNCHANGED <<env, svc, scene, otherVars>>

\* a call in flight settles: the rest of handleGeminiGenerate runs
GenerateSettles ==
    /\ \E id \in requests.pending : \E remote \in RemoteOutcomes :
         LET result == generateShapePoints(env.serviceDef, env.hasApiKey, remote) IN
         /\ app' = handleGeminiGenerateSettle(app, result)
         /\ requests' = [requests EXCEPT !.pending = @ \ {id},
                                         !.lastSettled = [id |-> id, ok |-> result.ok]]
         /\ scene' = particlesRender(scene, app'.targetPoints)
    /\ UNCHANGED <<env, svc, otherVars>>

\* generateShapePoints called with a description and a count, and the
\* caller's handling of the outcome as App.tsx:59-64 has it
ServiceCall ==
    /\ \E description \in {"cat", "a torus"} : \E count \in {1000, 2500} :
       \E remote \in RemoteOutcomes :
         LET result == generateShapePoints(env.serviceDef, env.hasApiKey, remote) IN
         svc' = [called |-> TRUE, description |-> description, count |-> count,
                 remote |-> remote, result |-> result,
                 alert |-> IF result.ok THEN "" ELSE AlertFor(result.error)]
    /\ UNCHANGED <<app, env, requests, scene, otherVars>>

\* geometry.ts:42-77, the loop of generateBottle runs one more iteration
BottleLoop ==
    /\ \E d \in BottleIterationDraws :
         bottle' = [prev |-> bottle.last, last |-> BottleIteration(d)]
    /\ UNCHANGED <<audio, audioMounted, isAudioEnabled, handData, hc, app, env,
                   requests, scene, svc>>

(***************************************************************************)
(* The render loop.                                                        *)
(***************************************************************************)
Frame ==
    /\ scene.frames < MaxFrames
    /\ \E d \in FrameDraws :
         scene' = useFrame(scene, handData, app.targetPoints,
                           d.jitter, d.noise, d.breathe)
    /\ UNCHANGED <<shapeVars, otherVars>>

vars == <<audio, audioMounted, isAudioEnabled, handData, hc, app, env, requests,
          scene, svc, bottle>>

Envs == [hasApiKey : BOOLEAN, serviceDef : ServiceDefinitions]

NoCall ==
    [called |-> FALSE, description |-> "", count |-> 0,
     remote |-> [kind |-> "noPoints", points |-> << >>],
     result |-> Resolved(<< >>), alert |-> ""]

\* the state after construction, for the build e and the position array
\* the first render of Particles drew
InitWith(e, positions) ==
    /\ audio = InitAudioState
    /\ audioMounted = TRUE
    /\ isAudioEnabled = FALSE
    /\ handData = InitialHandData
    /\ hc = InitHandController
    /\ app = InitApp
    /\ env = e
    /\ requests = InitRequests
    /\ scene = [InitScene EXCEPT !.currentPositions = positions]
    /\ svc = NoCall
    /\ bottle = NoIterations

InitFor(e) == InitWith(e, InitialPositions)

Init == \E e \in Envs : InitFor(e)

\* a build with the API key set and the service definition App.tsx matches
InitKeyed == InitFor([hasApiKey |-> TRUE, serviceDef |-> 2])

NextAudio == ToggleAudio \/ UnmountAudio \/ TimerFires \/ GestureUpdate

SpecAudio == InitKeyed /\ [][NextAudio]_vars

NextHand ==
    \/ VisionLoaded \/ VisionFails \/ ModelLoaded \/ ModelFails
    \/ CameraGranted \/ CameraDenied \/ LoadedData \/ Poll \/ VideoFrame
    \/ UnmountHand

SpecHand == InitKeyed /\ [][NextHand]_vars

NextGenerate ==
    MountEffect \/ SelectShape \/ SetPrompt \/ ClickGenerate \/ PressEnter
    \/ GenerateSettles

SpecGenerate == Init /\ [][NextGenerate]_vars

NextService == ServiceCall

SpecService == Init /\ [][NextService]_vars

\* the initialisation of the hand tracker up to its first poll, and the
\* render loop
NextTracking ==
    \/ VisionLoaded \/ VisionFails \/ ModelLoaded \/ ModelFails
    \/ CameraGranted \/ CameraDenied \/ LoadedData \/ UnmountHand
    \/ Frame

SpecTracking == InitKeyed /\ [][NextTracking]_vars

NextAudioInit == ToggleAudio \/ ToggleAudioInitThrows \/ GestureUpdate

SpecAudioInit == InitKeyed /\ [][NextAudioInit]_vars

\* the page with its audio button, its pattern buttons and gesture input
NextGate == MountEffect \/ SelectShape \/ GestureUpdate \/ ToggleAudio

SpecGate == InitKeyed /\ [][NextGate]_vars

NextBottle == BottleLoop

SpecBottle == InitKeyed /\ [][NextBottle]_vars

NextScene == MountEffect \/ SelectShape \/ Frame

SpecScene == InitKeyed /\ [][NextScene]_vars

\* ParticleScene.tsx:74-76 with breathe = 0: a coordinate times baseScale
Scaled(v) == Vec(Mul(v.x, baseScale), Mul(v.y, baseScale), Mul(v.z, baseScale))

\* Position arrays the first render may draw ((Math.random() - 0.5) * 15 is
\* any value in [-7.5, 7.5)): the one of InitialPositions, and those that
\* put every particle where a bottle's point list sends it.
PositionDraws ==
    {InitialPositions}
      \cup {[i \in Particles |-> Scaled(RawTarget(tp, i))] :
               tp \in generateBottle(ShapeCount)}

InitPlaced ==
    \E p \in PositionDraws :
        InitWith([hasApiKey |-> TRUE, serviceDef |-> 2], p)

SpecLerp == InitPlaced /\ [][NextScene]_vars


(***************************************************************************)
(* Properties of the audio life cycle.                                     *)
(***************************************************************************)
Running(c) == audio.ctxState[c] = "running"

\* a pending teardown timer holds context c
Captured(c) == \E k \in 1..Len(audio.timers) : audio.timers[k].ctx = c

\* an initialized engine: the flag set, the context open, its six oscillators running
EngineExists ==
    /\ audio.isInitializedRef
    /\ audio.audioCtxRef # NULL
    /\ Running(audio.audioCtxRef)
    /\ OscsBefore(audio.audioCtxRef, NUM_OSCILLATORS) \subseteq audio.oscRunning

\* C1: every AudioContext that initAudio created is closed, and its
\* oscillators stopped, once audio is disabled or the component unmounted and
\* the pending teardown timers have fired.  As a property a finite run can
\* refute: an open context is always either the one audioCtxRef names or
\* held by a pending teardown timer (otherwise nothing can ever close it),
\* and a closed context has no running oscillator.
C1_EveryContextIsReleased ==
    \A c \in Ctxs :
        /\ Running(c) => (audio.audioCtxRef = c \/ Captured(c))
        /\ audio.ctxState[c] = "closed" => \A o \in audio.oscRunning : o[1] # c

\* C2: from the moment teardown of a context is requested until the context
\* is closed, the target of its master gain is 0.
C2_GainTargetZeroDuringTeardown ==
    \A c \in Ctxs : (Running(c) /\ Captured(c)) => audio.gainTarget[c] = 0

\* C3: at most one AudioContext is live (created and not yet closed).
C3_SingleLiveContext ==
    Cardinality({c \in Ctxs : Running(c)}) <= 1

\* C4: while the component is mounted and no teardown timer is pending, an
\* initialized engine exists if and only if `enabled` is true.
C4_EngineFollowsEnabled ==
    (audioMounted /\ audio.timers = << >>) => (EngineExists <=> isAudioEnabled)

(***************************************************************************)
(* Properties of the hand tracker.                                         *)
(***************************************************************************)
\* the asynchronous initialisation has nothing in flight
HandSettled == hc.stage \notin {"vision", "model", "camera"}

\* C5: once HandController has unmounted and its initialisation has nothing
\* left in flight, the camera stream is stopped, the tracking model handle
\* is closed and no poll callback is pending.
C5_UnmountReleasesEverything ==
    (~hc.mounted /\ HandSettled) =>
        /\ hc.stream # "live"
        /\ hc.landmarker # "open"
        /\ ~hc.rafPending

NextGesture == ToggleAudio \/ GestureUpdate \/ Frame

SpecGesture == InitKeyed /\ [][NextGesture]_vars

(***************************************************************************)
(* Properties of the shape requests and of the generation service.         *)
(***************************************************************************)
\* this step settles a call of generateShapePoints that was in flight
SettleStep ==
    /\ requests'.pending \subseteq requests.pending
    /\ requests'.pending # requests.pending

\* C6: a rejected generateShapePoints call leaves the target point set as it
\* was and the generating flag false.
C6_FailedGenerationKeepsTarget ==
    [][(SettleStep /\ ~requests'.lastSettled.ok) =>
          (app'.targetPoints = app.targetPoints /\ ~app'.isGenerating)]_vars

\* a generation has failed with a shape on display and nothing else in flight
C6_Witness ==
    /\ requests.lastSettled.id # 0
    /\ ~requests.lastSettled.ok
    /\ requests.pending = {}
    /\ app.lastAlert = ALERT_FAILED
    /\ app.targetPoints \in generateBottle(ShapeCount)
    /\ ~app.isGenerating

RemoteFailures == {"callThrows", "emptyText", "badJson"}

\* C7: a request made without credentials and one whose remote call fails
\* both reject, the caller tells the two apart (it shows the missing-key
\* alert for the first and the failure alert for the second), and neither
\* resolves with an empty point list.
C7_ErrorsDistinguishable ==
    svc.called =>
        /\ ~env.hasApiKey =>
              (~svc.result.ok /\ svc.alert = ALERT_KEY_MISSING)
        /\ (env.hasApiKey /\ svc.remote.kind \in RemoteFailures) =>
              (~svc.result.ok /\ svc.alert = ALERT_FAILED)

(***************************************************************************)
(* Properties of the particle simulation.                                  *)
(***************************************************************************)
\* C8: a shape-change event replaces the target point set by a whole point
\* list of the selected generator and leaves the particle positions as they
\* are; the positions change only in a frame.
C8_ShapeChangeKeepsPositions ==
    [][/\ app' # app => scene'.currentPositions = scene.currentPositions
       /\ scene'.currentPositions # scene.currentPositions =>
              scene'.frames = scene.frames + 1
       /\ app'.targetPoints # app.targetPoints =>
              app'.targetPoints \in ShapePoints(app'.currentShape)]_vars

\* frames ran toward a sphere, the positions moved, and Cube was selected
C8_Witness ==
    /\ scene.frames > 0
    /\ scene.lastFrame.targetPoints \in generateSphere(ShapeCount)
    /\ scene.currentPositions # InitialPositions
    /\ app.currentShape = "Cube"
    /\ app.targetPoints \in generateCube(ShapeCount)

\* C9: in every frame the raw target of particle i is targetPoints[i mod N]
\* for a target set of length N > 0 (sequences count from 1), and the origin
\* for every particle when N = 0.
C9_RawTargetWraps ==
    scene.frames > 0 =>
        LET tp == scene.lastFrame.targetPoints
            N  == Len(tp)
        IN \A i \in Particles :
              /\ N > 0 => /\ (i % N) + 1 \in DOMAIN tp
                          /\ scene.lastFrame.rawTargets[i] = tp[(i % N) + 1]
              /\ N = 0 => scene.lastFrame.rawTargets[i] = Origin

\* a frame ran with fewer target points than particles: particle N shares
\* the first point with particle 0, and not the last point
C9_Witness ==
    /\ scene.frames > 0
    /\ LET tp == scene.lastFrame.targetPoints
           N  == Len(tp)
       IN /\ N > 1
          /\ N < ParticleCount
          /\ tp[1] # tp[N]
          /\ scene.lastFrame.rawTargets[N] = tp[1]
          /\ scene.lastFrame.rawTargets[0] = tp[1]

\* C10: with no hand detected the particle simulation uses intensity 0 and
\* the audio mapper 0.1; with a hand detected both use the openness.
C10_IdleIntensities ==
    /\ scene.frames > 0 =>
          scene.lastFrame.activeOpenness =
              IF scene.lastFrame.hd.detected THEN scene.lastFrame.hd.openness ELSE 0
    /\ audio.modulated.ran =>
          audio.modulated.intensity =
              IF audio.modulated.hd.detected THEN audio.modulated.hd.openness
              ELSE 100

\* both consumers have read the same gesture state with no hand detected
C10_Witness ==
    /\ scene.frames > 0
    /\ audio.modulated.ran
    /\ scene.lastFrame.hd = audio.modulated.hd
    /\ ~audio.modulated.hd.detected
    /\ scene.lastFrame.activeOpenness = 0
    /\ audio.modulated.intensity = 100

(***************************************************************************)
(* Properties of the gesture extraction and of the polling loop.           *)
(***************************************************************************)
\* C11: the gesture state the application holds, initial or emitted by the
\* extractor, has isOpen true exactly when openness > 0.5.
C11_IsOpenIffAboveHalf ==
    handData.isOpen <=> (handData.openness > 500)

\* a hand at openness exactly 0.5 was emitted: it is not open
C11_Witness ==
    /\ hc.emitted > 0
    /\ handData.detected
    /\ handData.openness = 500
    /\ ~handData.isOpen

\* C12: the openness of the gesture state is in [0, 1]; for a frame with a
\* hand at average distance d it is 0 for d <= 0.15, 1 for d >= 0.45 and
\* (d - 0.15) / 0.3 between; a frame with no hand gives exactly
\* {detected: false, isOpen: false, openness: 0}.
C12_OpennessRescaledAndClamped ==
    /\ handData.openness \in 0..1000
    /\ hc.emitted > 0 =>
          LET d == hc.lastDet.avgDist IN
          IF hc.lastDet.hand
          THEN /\ handData.detected
               /\ handData.openness =
                     IF d <= 150 THEN 0
                     ELSE IF d >= 450 THEN 1000
                     ELSE ((d - 150) * 10) \div 3
          ELSE handData = [detected |-> FALSE, isOpen |-> FALSE, openness |-> 0]

\* a hand farther than 0.45 was processed and gave openness 1
C12_Witness ==
    /\ hc.emitted > 0
    /\ hc.lastDet.hand
    /\ hc.lastDet.avgDist > 450
    /\ handData.openness = 1000

\* this step is a run of predictWebcam
PollStep == hc'.polls = hc.polls + 1

\* C13: a run of predictWebcam with the tracker and the video element
\* present schedules the next poll; when the video timestamp equals the one
\* processed last it emits nothing, otherwise it emits one gesture state and
\* records the timestamp.
C13_PollOncePerFrameAndRearm ==
    [][(PollStep /\ hc.landmarkerRef # NULL /\ hc.mounted) =>
          /\ hc'.rafPending
          /\ IF hc.videoTime = hc.lastVideoTimeRef
             THEN /\ hc'.emitted = hc.emitted
                  /\ handData' = handData
                  /\ hc'.lastVideoTimeRef = hc.lastVideoTimeRef
             ELSE /\ hc'.emitted = hc.emitted + 1
                  /\ hc'.lastVideoTimeRef = hc.videoTime]_vars

\* frames were processed, a poll of an already processed frame was skipped,
\* and the next poll is scheduled
C13_Witness ==
    /\ hc.mounted
    /\ hc.emitted >= 2
    /\ hc.polls > hc.emitted
    /\ hc.lastVideoTimeRef = hc.videoTime
    /\ hc.rafPending

(***************************************************************************)
(* Properties of the audio parameter mapping.                              *)
(***************************************************************************)
\* intensities in [0, 1] in steps of 0.05
Intensities == {50 * k : k \in 0..20}

\* the modulation effect passes its guard: the engine's context, filter and
\* master gain are there
EngineRefs ==
    /\ audio.audioCtxRef # NULL
    /\ audio.filterNodeRef # NULL
    /\ audio.masterGainRef # NULL

\* C14: a change of the gesture state while the engine exists sets the
\* cutoff target to 150 + intensity^2 * 5850 Hz and the gain target to
\* 0.3 + intensity * 0.3, where the intensity is the openness of a detected
\* hand; openness 0 gives 150 Hz and 0.3, openness 1 gives 6000 Hz and 0.6;
\* both targets stay in [150, 6000] Hz and [0.3, 0.6] and do not decrease
\* from one intensity to the next larger one.
C14_AudioTargetsFromIntensity ==
    [][(handData' # handData /\ audioMounted /\ EngineRefs) =>
          /\ \A k \in Intensities \ {1000} :
                /\ TargetFreq(k) <= TargetFreq(k + 50)
                /\ TargetVol(k) <= TargetVol(k + 50)
          /\ LET i      == IF handData'.detected THEN handData'.openness ELSE 100
                 cutoff == audio'.filterTarget[audio.filterNodeRef]
                 gain   == audio'.gainTarget[audio.masterGainRef]
             IN /\ cutoff = 150000 + ((i * i) \div 100) * 585
                /\ gain = 300 + (i * 3) \div 10
                /\ cutoff \in 150000..6000000
                /\ gain \in 300..600
                /\ (handData'.detected /\ i = 0) => (cutoff = 150000 /\ gain = 300)
                /\ (handData'.detected /\ i = 1000) =>
                       (cutoff = 6000000 /\ gain = 600)]_vars

\* with the engine running a fully open hand was published: 6000 Hz and 0.6
C14_Witness ==
    /\ EngineRefs
    /\ audio.modulated.ran
    /\ audio.modulated.hd = handData
    /\ handData.detected
    /\ handData.openness = 1000
    /\ audio.filterTarget[audio.filterNodeRef] = 6000000
    /\ audio.gainTarget[audio.masterGainRef] = 600

(***************************************************************************)
(* Properties of the particle update.                                      *)
(***************************************************************************)
\* this step is a frame in which the jitter drawn is zero, the breathing
\* term is zero and activeOpenness is zero (no explosion, no noise)
QuietFrameStep ==
    /\ scene'.frames = scene.frames + 1
    /\ \A i \in Particles : scene'.lastFrame.jitter[i] = Origin
    /\ scene'.lastFrame.breathe = 0
    /\ scene'.lastFrame.activeOpenness = 0

\* the point the lerp of a quiet frame moves particle i toward: its raw
\* target times the base scale 1.8
LerpTarget(raw) ==
    Vec((raw.x * 1800) \div 1000, (raw.y * 1800) \div 1000, (raw.z * 1800) \div 1000)

\* C15: in a frame with jitter, noise, breathing and explosion terms zero, a
\* particle whose position equals the target of its lerp keeps that position.
C15_TargetIsFixedPoint ==
    [][QuietFrameStep =>
          \A i \in Particles :
              scene.currentPositions[i] = LerpTarget(scene'.lastFrame.rawTargets[i])
                  => scene'.currentPositions[i] = scene.currentPositions[i]]_vars

\* after two frames toward a bottle, the last one quiet, a particle sits on
\* its target away from the origin
C15_Witness ==
    /\ scene.frames >= 2
    /\ scene.lastFrame.targetPoints \in generateBottle(ShapeCount)
    /\ scene.lastFrame.activeOpenness = 0
    /\ scene.lastFrame.breathe = 0
    /\ \A i \in Particles : scene.lastFrame.jitter[i] = Origin
    /\ \E i \in Particles :
          /\ scene.lastFrame.rawTargets[i] # Origin
          /\ scene.currentPositions[i] = LerpTarget(scene.lastFrame.rawTargets[i])

(***************************************************************************)
(* Properties of the bottle generator.                                     *)
(***************************************************************************)
\* the radius of the iteration follows the table of the profile
BottleTable(it) ==
    /\ it.y < 50 => it.r \in 0..800
    /\ (50 <= it.y /\ it.y < 600) => it.r = 800
    /\ (600 <= it.y /\ it.y < 700) => it.r = 800 - 5 * (it.y - 600)
    /\ (700 <= it.y /\ it.y < 950) => it.r = 300
    /\ it.y >= 950 => it.r = 350

\* two consecutive iterations whose normalized heights are at most 0.002
\* apart, the first below breakpoint b, the second at or above it
Crosses(b) ==
    /\ bottle.prev.ran
    /\ bottle.last.ran
    /\ bottle.prev.y < b
    /\ b <= bottle.last.y
    /\ bottle.last.y - bottle.prev.y <= 2

\* the radii of the two iterations differ by no more than the steepest slope
\* of the profile (0.5 over 0.1) allows for their height difference
NoJump ==
    /\ bottle.last.r - bottle.prev.r <= 5 * (bottle.last.y - bottle.prev.y)
    /\ bottle.prev.r - bottle.last.r <= 5 * (bottle.last.y - bottle.prev.y)

\* C16 as stated: the radius follows the table and does not jump across any
\* of the breakpoints 0.05, 0.6, 0.7 and 0.95.
C16_ContinuousAtEveryBreakpoint ==
    /\ bottle.last.ran => BottleTable(bottle.last)
    /\ \A b \in {50, 600, 700, 950} : Crosses(b) => NoJump

\* C16: the radius follows the table (0.8 for 0.05 <= y < 0.6, linear from
\* 0.8 to 0.3 for 0.6 <= y < 0.7, 0.3 for 0.7 <= y < 0.95, 0.35 from 0.95
\* on), so y = 0.6 gives 0.8, y = 0.7 gives 0.3 and y = 0.95 gives 0.35; it
\* does not jump across 0.6 and 0.7, and it steps from 0.3 to 0.35 across
\* 0.95.
C16_TableAndContinuousShoulder ==
    /\ bottle.last.ran => BottleTable(bottle.last)
    /\ (bottle.last.ran /\ bottle.last.y = 600) => bottle.last.r = 800
    /\ (bottle.last.ran /\ bottle.last.y = 700) => bottle.last.r = 300
    /\ (bottle.last.ran /\ bottle.last.y = 950) => bottle.last.r = 350
    /\ \A b \in {600, 700} : Crosses(b) => NoJump
    /\ Crosses(950) => (bottle.prev.r = 300 /\ bottle.last.r = 350)

\* the loop produced a point just below 0.95 and then one at 0.95
C16_Witness ==
    /\ Crosses(950)
    /\ bottle.prev.y = 949
    /\ bottle.last.y = 950
    /\ bottle.last.r = 350

\* C17: the normalized height of every point the bottle generator produces
\* is in [0, 1], and the point's vertical coordinate in [-1.5, 2.0].
C17_NormalizedHeightInUnitRange ==
    bottle.last.ran =>
        /\ bottle.last.y \in 0..1000
        /\ bottle.last.point.y \in (-1500)..2000

(***************************************************************************)
(* Properties of the failure paths.                                        *)
(***************************************************************************)
\* a catch block of HandController ran: the model failed to load or the
\* camera was denied
GestureInputFailed == hc.stage = "failed" \/ hc.error # ""

\* C18: once the camera is denied or the tracking model fails to load, no
\* gesture state has been or will be emitted, the application's gesture
\* state stays the initial detected: false one, the initialisation is not
\* tried again and no poll is scheduled, while frames keep running, with
\* activeOpenness 0.
C18_GestureInputTerminallyOff ==
    [][/\ GestureInputFailed' =>
             /\ hc'.emitted = 0
             /\ handData' = [detected |-> FALSE, isOpen |-> FALSE, openness |-> 0]
             /\ ~hc'.rafPending
             /\ (scene'.frames = scene.frames + 1 =>
                    scene'.lastFrame.activeOpenness = 0)
       /\ GestureInputFailed =>
             /\ GestureInputFailed'
             /\ hc'.stage = hc.stage
             /\ (scene.frames < MaxFrames => ENABLED Frame)]_vars

\* the camera was denied and frames have run since the page loaded
C18_Witness ==
    /\ hc.stage = "failed"
    /\ hc.error = "Camera permission denied."
    /\ hc.landmarker = "open"
    /\ scene.frames >= 1
    /\ scene.lastFrame.activeOpenness = 0
    /\ ~handData.detected

\* C19: after a run of initAudio that threw, the engine is not marked
\* initialized, none of the context, master gain and filter references is
\* retained, and so the modulation effect has nothing to apply a gesture
\* update to.
C19_FailedInitRetainsNothing ==
    audio.initFailed =>
        /\ ~audio.isInitializedRef
        /\ audio.audioCtxRef = NULL
        /\ audio.masterGainRef = NULL
        /\ audio.filterNodeRef = NULL
        /\ ~EngineRefs

(***************************************************************************)
(* Properties of the audio gate.                                           *)
(***************************************************************************)
\* C20: no AudioContext exists when the application has mounted, and one is
\* created only by a step that changes `enabled` from false to true: not by
\* the mount effect, a gesture-state change or a shape change.
C20_ContextOnlyOnEnable ==
    /\ audio.created = 0
    /\ \A c \in Ctxs : audio.ctxState[c] = "none"
    /\ [][audio'.created # audio.created =>
              (~isAudioEnabled /\ isAudioEnabled')]_vars

\* the shape was mounted and changed, a hand was published and audio was
\* enabled: the one context is the one the enabling created
C20_Witness ==
    /\ app.mountEffectRan
    /\ app.currentShape = "Cube"
    /\ handData.detected
    /\ isAudioEnabled
    /\ audio.created = 1
    /\ audio.audioCtxRef = 1


\* a teardown timer fires in this step (only a firing timer shortens the queue)
TimerStep == Len(audio'.timers) < Len(audio.timers)

\* C21: a teardown timer scheduled by stopAudio releases only the engine
\* that existed when it was scheduled: when it fires while audioCtxRef names
\* another context (one a later initAudio created), it stops none of that
\* engine's oscillators and leaves audioCtxRef and isInitializedRef as they are.
C21_TimerReleasesOnlyItsEngine ==
    [][(TimerStep /\ audio.audioCtxRef # NULL
                  /\ audio.audioCtxRef # Head(audio.timers).ctx)
         => /\ audio'.audioCtxRef = audio.audioCtxRef
            /\ audio'.isInitializedRef = audio.isInitializedRef
            /\ \A o \in audio.oscRunning :
                 o[1] = audio.audioCtxRef => o \in audio'.oscRunning]_vars

\* C22: each AudioContext is closed exactly once: at most one teardown
\* timer is pending per context, and a timer that fires never calls close()
\* on a context that is closed already.
C22_ContextClosedOnce ==
    /\ [](\A j, k \in 1..Len(audio.timers) :
            audio.timers[j].ctx = audio.timers[k].ctx => j = k)
    /\ [][TimerStep => audio.ctxState[Head(audio.timers).ctx] # "closed"]_vars


\* this step settles a call whose request the user has since replaced, with
\* the replacement's points already on display: a pattern button was clicked
\* after the last generation started (only handleShapeChange puts a built-in
\* label over GEMINI_GENERATED), or a generation started later has resolved
LateSettleStep ==
    /\ SettleStep
    /\ \/ app.currentShape \in BuiltInShapes
       \/ /\ app.currentShape = GEMINI_GENERATED
          /\ requests.lastSettled.ok
          /\ requests'.lastSettled.id < requests.lastSettled.id

\* C23: a generation response that arrives after the user has issued a later
\* shape request (a pattern button, or a second generation started with
\* Enter while the first was in flight) leaves the target points of the
\* later request in place.
C23_LateResponseKeepsLaterTarget ==
    [][LateSettleStep => app'.targetPoints = app.targetPoints]_vars


\* C24: whenever no generation request is in flight, currentShape names the
\* source of the target points on display: under GEMINI_GENERATED they are a
\* point list a successful remote generation delivered, under Sphere, Cube
\* or Bottle a point list of that generator (the label is compared from the
\* mount effect on, which displays the first shape).
C24_LabelNamesTargetSource ==
    (app.mountEffectRan /\ requests.pending = {}) =>
        /\ app.currentShape = GEMINI_GENERATED =>
             app.targetPoints \in GeminiPointLists
        /\ \A shape \in BuiltInShapes :
             app.currentShape = shape => app.targetPoints \in ShapePoints(shape)


(***************************************************************************)
(* Properties of the hand tracker after unmount.                           *)
(***************************************************************************)
\* C25: once HandController has unmounted, no gesture state is emitted
\* through onHandUpdate and no poll is scheduled, whichever of the model
\* load, the camera request, the loadeddata listener or an animation-frame
\* callback was outstanding at unmount.
C25_SilentAfterUnmount ==
    [][~hc.mounted =>
          /\ hc'.emitted = hc.emitted
          /\ handData' = handData
          /\ ~hc'.rafPending]_vars

\* the component unmounted with the tracker loaded and the loadeddata
\* listener registered; the listener has run since, on a frame not processed
\* before, and returned without emitting or scheduling
C25_Witness ==
    /\ ~hc.mounted
    /\ hc.stage = "polling"
    /\ hc.landmarkerRef # NULL
    /\ hc.polls = 1
    /\ hc.videoTime # hc.lastVideoTimeRef
    /\ hc.emitted = 0
    /\ ~hc.rafPending

====
